---- MODULE Spec2Model ----
(***************************************************************************)
(* Model of the synthetic-dataset generators of Analysis/Classes:          *)
(* OrderHistory, CustomerInfo, SchoolAttendance and the table assembler    *)
(* to_dataframe of Utilities.                                              *)
(*                                                                         *)
(* Dates are day numbers counted from 2022-01-01 (day 0, a Saturday).      *)
(* Money is kept in integers: order amounts in cents, credit limits in     *)
(* dollars.  A spend weight 1 + 2 * (v / max_total) is the exact fraction  *)
(* <<max_total + 2 * v, max_total>>.                                       *)
(*                                                                         *)
(* Every call of the random source is an input of the action that makes    *)
(* it.  Each draw has a baseline outcome; a run may depart from the        *)
(* baseline in at most `budget` draws (see Draw).                          *)
(***************************************************************************)
EXTENDS Integers, Sequences, FiniteSets, TLC

VARIABLES
    oh,             \* the OrderHistory object (fields set by __init__)
    ci,             \* the CustomerInfo object: built flag and spend_weights
    pc,             \* idle, or the call that is running, or raised
    geo,            \* the running set_city_state_zip call
    order_table,    \* table returned (and saved) by OrderHistory.__call__
    customer_table, \* table returned (and saved) by CustomerInfo.__call__
    emitted,        \* names of the tables produced so far
    weights_data,   \* the records get_spend_weights iterated over
    error,          \* exception that ended a call, "" if none
    budget,         \* draws that may still depart from the baseline outcome
    base_noise,     \* baseline outcome of the normal draw of set_order_amount
    sa,             \* the SchoolAttendance object and its running generate_data
    df,             \* to_dataframe: its arguments and its result
    students,       \* the Students object and its running generate_data
    mut             \* a mutator of OrderHistory called on its own: arguments, results

vars == <<oh, ci, pc, geo, order_table, customer_table, emitted,
          weights_data, error, budget, base_noise, sa, df, students, mut>>

-----------------------------------------------------------------------------
(* Bounds of the model *)

MaxRevenue == 12      \* largest revenue passed to OrderHistory
MaxAov     == 2       \* largest aov passed to OrderHistory
FirstDay   == 313     \* start_date: 2022-11-10
MaxSpan    == 0       \* end_date lies in FirstDay..FirstDay+MaxSpan
MaxDepart  == 1       \* draws of one run that depart from the baseline outcome
MaxAttSpan == 2       \* SchoolAttendance dates lie in FirstDay..FirstDay+MaxAttSpan
MaxStudents == 3      \* largest max_student_id
MaxLen     == 3       \* longest list of records handed to to_dataframe directly
MaxKey     == 3       \* largest sort key in those records
MaxCallSpan == 47     \* a mutator called on its own gets an order_date in
                      \* FirstDay..FirstDay+MaxCallSpan (to 2022-12-27)

-----------------------------------------------------------------------------
(* Helpers on sequences and integers *)

Range(s) == {s[i] : i \in 1..Len(s)}

Abs(x) == IF x < 0 THEN -x ELSE x

RECURSIVE Repeat(_, _)
Repeat(s, k) == IF k <= 0 THEN <<>> ELSE s \o Repeat(s, k - 1)

RECURSIVE SumOver(_, _)
SumOver(f, S) ==
    IF S = {} THEN 0
    ELSE LET x == CHOOSE y \in S : TRUE IN f[x] + SumOver(f, S \ {x})

SetMax(S) == CHOOSE x \in S : \A y \in S : y <= x

(* A draw from the random source: the outcomes still allowed when `left`   *)
(* departures remain, and what an outcome costs.                           *)
Draw(S, base, left) == IF left > 0 THEN S ELSE S \cap {base}
Cost(x, base) == IF x = base THEN 0 ELSE 1

-----------------------------------------------------------------------------
(* Calendar: datetime.date and holidays.US(years = 2022) *)

weekday(d) == (d + 5) % 7     \* Monday = 0 ... Sunday = 6

(* Jan 1, MLK Jan 17, Washington Feb 21, Memorial May 30, Juneteenth Jun 19 *)
(* and Jun 20 (observed), Jul 4, Labor Sep 5, Columbus Oct 10, Veterans     *)
(* Nov 11, Thanksgiving Nov 24, Christmas Dec 25 and Dec 26 (observed).     *)
(* Every date the model reaches lies in 2022.                               *)
holidays_2022 == {0, 16, 51, 149, 169, 170, 184, 247, 282, 314, 327, 358, 359}

-----------------------------------------------------------------------------
(* OrderHistory *)

peak_days == <<109, 323, 324, 325, 326, 352, 353, 359, 360>>

(* Variant: the range of days runs one day past end_date.                    *)
calculate_dates_past_end(start_date, end_date) ==
    [d \in 1..(IF end_date >= start_date THEN end_date - start_date + 2 ELSE 0)
        |-> start_date + d - 1]
    \o Repeat(peak_days, 4)

calculate_dates(start_date, end_date) ==
    [d \in 1..(IF end_date >= start_date THEN end_date - start_date + 1 ELSE 0)
        |-> start_date + d - 1]
    \o Repeat(peak_days, 4)

(* int(percentage * num_orders // 4) for the percentages 0.05, 0.35, 0.60;  *)
(* exact for every num_orders below 720, where float rounding first shows.  *)
PoolCounts(num_orders) ==
    << (5 * num_orders) \div 400, (35 * num_orders) \div 400, (60 * num_orders) \div 400 >>

orders_list == <<20, 4, 1>>

(* set_customer_pool, given the ids drawn by rn.randint for each customer:  *)
(* ids[k] is the sequence of ids of the customers of group k.               *)
RECURSIVE Slots(_, _)
Slots(ids, num) ==
    IF ids = <<>> THEN <<>> ELSE Repeat(<<Head(ids)>>, num) \o Slots(Tail(ids), num)

set_customer_pool(ids) ==
    Slots(ids[1], orders_list[1]) \o Slots(ids[2], orders_list[2]) \o Slots(ids[3], orders_list[3])

(* Variant: the customer ids are taken from the customers that have a spend  *)
(* weight instead of from the pool.                                          *)
get_customer_ids_weighted(o) == DOMAIN ci.spend_weights

get_customer_ids(o) == Range(o.customer_pool)

(* set_shipped_date: the condition of the comprehension is evaluated three  *)
(* times on the same tentative date.                                        *)
set_shipped_date(order_date, offset) ==
    LET shipped_date == order_date + offset
    IN  shipped_date
        + Cardinality({i \in 1..3 : weekday(shipped_date) >= 5
                                    \/ shipped_date \in holidays_2022})

set_comments(order_date) ==
    IF order_date \in holidays_2022 THEN "Holiday Promotion" ELSE ""

(* Index of the first peak day whose window holds order_date, 0 if none.    *)
FirstPeak(order_date) ==
    LET hits == {i \in 1..Len(peak_days) :
                    /\ -10 <= peak_days[i] - order_date
                    /\ peak_days[i] - order_date <= 0}
    IN  IF hits = {} THEN 0 ELSE CHOOSE i \in hits : \A j \in hits : i <= j

(* peak_multiplier of set_order_amount, times 5: 1 + 0.2 * abs(days_diff).  *)
peak_multiplier5(order_date) ==
    IF FirstPeak(order_date) = 0 THEN 5
    ELSE 5 + Abs(peak_days[FirstPeak(order_date)] - order_date)

(* set_order_amount in cents: normal(aov * spike * peak, 15) is the mean    *)
(* plus a noise term.                                                       *)
set_order_amount(aov, order_date, spike, noise) ==
    aov * spike * peak_multiplier5(order_date) * 20 + noise

(* get_spend_weights on a list of order records: "ValueError" for max() of  *)
(* no totals, "ZeroDivisionError" for a maximum of 0.                       *)
OrderTotals(orders) ==
    [c \in {orders[i].customer_id : i \in 1..Len(orders)} |->
        SumOver([i \in 1..Len(orders) |-> orders[i].order_amount],
                {i \in 1..Len(orders) : orders[i].customer_id = c})]

SpendWeightsOf(totals) ==
    LET max_total == SetMax({totals[c] : c \in DOMAIN totals})
    IN  [c \in DOMAIN totals |-> <<max_total + 2 * totals[c], max_total>>]

SpendWeightsError(orders) ==
    LET totals == OrderTotals(orders)
    IN  IF DOMAIN totals = {} THEN "ValueError"
        ELSE IF SetMax({totals[c] : c \in DOMAIN totals}) = 0 THEN "ZeroDivisionError"
        ELSE ""

get_spend_weights(orders) == SpendWeightsOf(OrderTotals(orders))

-----------------------------------------------------------------------------
(* Utilities.to_dataframe *)

KeyOf(r, by) == [i \in 1..Len(by) |-> r[by[i]]]

RECURSIVE LexLess(_, _)
LexLess(a, b) ==
    IF a = <<>> THEN FALSE
    ELSE a[1] < b[1] \/ (a[1] = b[1] /\ LexLess(Tail(a), Tail(b)))

Precedes(a, b, ascending) == IF ascending THEN LexLess(a, b) ELSE LexLess(b, a)

(* DataFrame.sort_values: every arrangement of the rows that is ordered by  *)
(* the key; the order of rows with equal keys is not fixed by the call.     *)
(* The arrangements are built by placing the last row at each position of   *)
(* an arrangement of the others that keeps the keys in order.               *)
RECURSIVE sort_values(_, _, _)
sort_values(rows, by, ascending) ==
    IF rows = <<>> THEN {<<>>}
    ELSE LET x  == rows[Len(rows)]
             kx == KeyOf(x, by)
         IN  UNION {{SubSeq(t, 1, p) \o <<x>> \o SubSeq(t, p + 1, Len(t))
                        : p \in {q \in 0..Len(t) :
                                   /\ q = 0 \/ ~Precedes(kx, KeyOf(t[q], by), ascending)
                                   /\ q = Len(t)
                                      \/ ~Precedes(KeyOf(t[q + 1], by), kx, ascending)}}
                    : t \in sort_values(SubSeq(rows, 1, Len(rows) - 1), by, ascending)}

(* df.insert(0, 'id', range(1, len(df) + 1)) *)
insert_id(rows) == [i \in 1..Len(rows) |-> [id |-> i] @@ rows[i]]

(* Variant: the id column is inserted before the rows are sorted.            *)
to_dataframe_id_first(records, by, ascending, add_id) ==
    IF by # <<>> /\ records = <<>>
    THEN {[raised |-> "KeyError", rows |-> <<>>]}
    ELSE LET withid == IF add_id THEN insert_id(records) ELSE records
         IN  {[raised |-> "", rows |-> t] :
                 t \in IF by # <<>> THEN sort_values(withid, by, ascending) ELSE {withid}}

(* The outcomes of to_dataframe.  A frame built from no records has no      *)
(* columns, so sorting it by a column raises KeyError.                      *)
to_dataframe(records, by, ascending, add_id) ==
    IF by # <<>> /\ records = <<>>
    THEN {[raised |-> "KeyError", rows |-> <<>>]}
    ELSE LET sorted == IF by # <<>> THEN sort_values(records, by, ascending)
                       ELSE {records}
         IN  {[raised |-> "", rows |-> IF add_id THEN insert_id(s) ELSE s] : s \in sorted}

-----------------------------------------------------------------------------
(* CustomerInfo *)

excluded_states == {"AK", "HI", "DC", "PR"}

GeoTries == 5

fallback == [city |-> "Los Angeles", state |-> "CA", postal_code |-> "90210"]

(* Outcomes of fake.state_abbr(): states, the excluded ones and territories. *)
StateAbbrs == {"CA", "NY", "AK", "HI", "DC", "PR", "GU", "VI"}

(* search.by_state(state): the zipcode rows found.  GU stands for a state    *)
(* with no row (rn.choice raises IndexError), VI for one whose row is falsy. *)
by_state(state) ==
    CASE state = "CA" -> << [major_city |-> "Beverly Hills", zipcode |-> "90210"],
                            [major_city |-> "Los Angeles",   zipcode |-> "90001"] >>
      [] state = "NY" -> << [major_city |-> "New York",      zipcode |-> "10001"] >>
      [] state = "AK" -> << [major_city |-> "Anchorage",     zipcode |-> "99501"] >>
      [] state = "HI" -> << [major_city |-> "Honolulu",      zipcode |-> "96813"] >>
      [] state = "DC" -> << [major_city |-> "Washington",    zipcode |-> "20001"] >>
      [] state = "PR" -> << [major_city |-> "San Juan",      zipcode |-> "00901"] >>
      [] state = "VI" -> << [major_city |-> "",              zipcode |-> ""] >>
      [] OTHER        -> << >>

Truthy(choice) == choice.zipcode # ""

(* Variant: the sampled state is not checked against excluded_states.       *)
Attempt_no_exclusion(state, k) ==
    IF by_state(state) = <<>> THEN [returns |-> FALSE, raised |-> ""]
    ELSE IF Truthy(by_state(state)[k])
         THEN [returns |-> TRUE, raised |-> "",
               value |-> [city        |-> by_state(state)[k].major_city,
                          state       |-> state,
                          postal_code |-> by_state(state)[k].zipcode]]
         ELSE [returns |-> FALSE, raised |-> ""]

(* Variant: the IndexError of rn.choice on an empty list is not caught.      *)
Attempt_uncaught(state, k) ==
    IF state \in excluded_states THEN [returns |-> FALSE, raised |-> ""]
    ELSE IF by_state(state) = <<>> THEN [returns |-> FALSE, raised |-> "IndexError"]
    ELSE IF Truthy(by_state(state)[k])
         THEN [returns |-> TRUE, raised |-> "",
               value |-> [city        |-> by_state(state)[k].major_city,
                          state       |-> state,
                          postal_code |-> by_state(state)[k].zipcode]]
         ELSE [returns |-> FALSE, raised |-> ""]

(* One pass of the loop body of set_city_state_zip for a sampled state and   *)
(* the index k that rn.choice picks: the triple returned, or no return.      *)
Attempt(state, k) ==
    IF state \in excluded_states THEN [returns |-> FALSE, raised |-> ""]
    ELSE IF by_state(state) = <<>> THEN [returns |-> FALSE, raised |-> ""]  \* IndexError, caught
    ELSE IF Truthy(by_state(state)[k])
         THEN [returns |-> TRUE, raised |-> "",
               value |-> [city        |-> by_state(state)[k].major_city,
                          state       |-> state,
                          postal_code |-> by_state(state)[k].zipcode]]
         ELSE [returns |-> FALSE, raised |-> ""]

(* Indexes rn.choice can pick in by_state(state); 1 stands for the call on   *)
(* an empty list and for the states never looked up.                         *)
ChoiceIndexes(state) ==
    IF state \in excluded_states \/ by_state(state) = <<>> THEN {1}
    ELSE 1..Len(by_state(state))

(* round(x, -2) for the fraction x = n / d: nearest hundred, ties to even.   *)
RoundHundreds(n, d) ==
    LET nn == IF d < 0 THEN -n ELSE n
        dd == 100 * Abs(d)
        q  == nn \div dd
        r  == nn % dd
    IN  100 * (IF 2 * r < dd THEN q
               ELSE IF 2 * r > dd THEN q + 1
               ELSE IF q % 2 = 0 THEN q ELSE q + 1)

(* self.spend_weights.get(customer_id, 1) *)
WeightOf(spend_weights, customer_id) ==
    IF customer_id \in DOMAIN spend_weights THEN spend_weights[customer_id] ELSE <<1, 1>>

(* set_credit_limit for the value u drawn by np.random.uniform(1000, 5000)   *)
set_credit_limit(spend_weights, customer_id, u) ==
    RoundHundreds(u * WeightOf(spend_weights, customer_id)[1],
                  WeightOf(spend_weights, customer_id)[2])

-----------------------------------------------------------------------------
(* Inputs of the model *)

IdLow  == 1000000     \* rn.randint(1000000, 9999999)
IdHigh == 9999999

Window == FirstDay..(FirstDay + MaxSpan)

Spikes    == {1, 2, 3}                \* 1, or the value of np.random.uniform(2, 4)
Noise     == {-1500, 1500}            \* one standard deviation (15 dollars) either side
Statuses  == {"completed", "abandoned", "canceled"}
Stores    == {1, 500}                 \* rn.randint(1, 500)
Uniforms  == {1000, 2500, 4999}       \* np.random.uniform(1000, 5000)
SalesReps == {1, 10}                  \* rn.randint(1, 10)
FakeTexts == {"a", "b"}               \* values of fake.name(), phone_number(), street_address()

(* The ids rn.randint draws for the customers of a pool: the j-th customer   *)
(* gets a fresh id or the id of the first one.                               *)
PoolIdDraws(counts) ==
    LET m == counts[1] + counts[2] + counts[3]
    IN  {<< SubSeq(f, 1, counts[1]),
            SubSeq(f, counts[1] + 1, counts[1] + counts[2]),
            SubSeq(f, counts[1] + counts[2] + 1, m) >> :
         f \in {g \in [1..m -> IdLow..(IdLow + m)] :
                    \A j \in 1..m : g[j] \in {IdLow + j, IdLow + 1}}}

(* The ids rn.randint draws for the order after k others: fresh, or the id   *)
(* the next order draws.                                                     *)
OrderIdDraws(k) == {IdLow + k, IdLow + k + 1} \cap (IdLow..IdHigh)

(* What fake.state_abbr() and rn.choice yield in one pass of the loop of     *)
(* set_city_state_zip, and the passes of one call inside generate_data.      *)
AttemptInputs == {[state |-> st, k |-> k] : st \in StateAbbrs, k \in 1..2} \cap
                 {a \in [state : StateAbbrs, k : 1..2] : a.k \in ChoiceIndexes(a.state)}

GeoTapes == {[i \in 1..GeoTries |-> a] : a \in AttemptInputs}
BaseTape == [i \in 1..GeoTries |-> [state |-> "CA", k |-> 1]]

-----------------------------------------------------------------------------
(* OrderHistory.__init__ and generate_data *)

NewOrderHistory(revenue, aov, start_date, end_date, ids) ==
    [revenue       |-> revenue,
     aov           |-> aov,
     num_orders    |-> revenue \div aov,
     start_date    |-> start_date,
     end_date      |-> end_date,
     dates         |-> calculate_dates(start_date, end_date),
     customer_pool |-> set_customer_pool(ids)]

OrderRecord(order_id, order_date, offset, status, spike, noise, customer_id, store) ==
    [order_id     |-> order_id,
     order_date   |-> order_date,
     shipped_date |-> set_shipped_date(order_date, offset),
     status       |-> status,
     comments     |-> set_comments(order_date),
     order_amount |-> set_order_amount(oh.aov, order_date, spike, noise),
     customer_id  |-> customer_id,
     store_id     |-> store]

(* The passes of a loop draw independently and identically, so departures   *)
(* are explored in its leading passes only, one pass for each departure a    *)
(* run may make: pass k + 1 may depart from the baseline when k < MaxDepart. *)
Allowed(k, left) == IF k < MaxDepart THEN left ELSE 0

(* The records one pass of the loop of generate_data can build after k       *)
(* others, with the departures left after each.  The draws are made in the   *)
(* order of the dictionary: date, id, shipping offset, status, spike and     *)
(* noise of the amount, customer, store.                                     *)
OrderDraws(k, left) ==
    LET b0 == Allowed(k, left) IN
    UNION {LET b1 == b0 - Cost(order_date, oh.dates[1]) IN
    UNION {LET b2 == b1 - Cost(order_id, IdLow + k) IN
    UNION {LET b3 == b2 - Cost(offset, 1) IN
    UNION {LET b4 == b3 - Cost(status, "completed") IN
    UNION {LET b5 == b4 - Cost(spike, 1) IN
    UNION {LET b6 == b5 - Cost(noise, base_noise) IN
    UNION {LET b7 == b6 - Cost(customer_id, oh.customer_pool[1]) IN
           {[rec  |-> OrderRecord(order_id, order_date, offset, status,
                                  spike, noise, customer_id, store),
             left |-> left - (b0 - (b7 - Cost(store, 1)))] : store \in Draw(Stores, 1, b7)}
        : customer_id \in Draw(Range(oh.customer_pool), oh.customer_pool[1], b6)}
        : noise \in Draw(Noise, base_noise, b5)}
        : spike \in Draw(Spikes, 1, b4)}
        : status \in Draw(Statuses, "completed", b3)}
        : offset \in Draw(1..2, 1, b2)}
        : order_id \in Draw(OrderIdDraws(k), IdLow + k, b1)}
        : order_date \in Draw(Range(oh.dates), oh.dates[1], b0)}

RECURSIVE OrderLists(_, _)
OrderLists(k, left) ==
    IF k = 0 THEN {[data |-> <<>>, left |-> left]}
    ELSE UNION {{[data |-> Append(p.data, d.rec), left |-> d.left]
                    : d \in OrderDraws(k - 1, p.left)}
                : p \in OrderLists(k - 1, left)}

(* The outcomes of generate_data: rn.choice(self.customer_pool) raises       *)
(* IndexError on an empty pool, in the first pass of the loop.               *)
generate_data(left) ==
    IF oh.num_orders > 0 /\ oh.customer_pool = <<>>
    THEN {[raised |-> "IndexError", data |-> <<>>, left |-> left]}
    ELSE {[raised |-> "", data |-> p.data, left |-> p.left]
             : p \in OrderLists(oh.num_orders, left)}

-----------------------------------------------------------------------------
(* CustomerInfo.set_city_state_zip and generate_data *)

(* The loop of set_city_state_zip over the passes of a tape *)
RECURSIVE CityStateZipFrom(_, _)
CityStateZipFrom(tape, i) ==
    IF i > GeoTries THEN [raised |-> "", value |-> fallback]
    ELSE LET a == Attempt(tape[i].state, tape[i].k)
         IN  IF a.raised # "" THEN [raised |-> a.raised, value |-> fallback]
             ELSE IF a.returns THEN [raised |-> "", value |-> a.value]
             ELSE CityStateZipFrom(tape, i + 1)

set_city_state_zip(tape) == CityStateZipFrom(tape, 1)

CustomerRecord(customer_id, name, phone, address, triple, rep, u) ==
    [customer_id           |-> customer_id,
     customer_name         |-> name,
     phone                 |-> phone,
     address               |-> address,
     city                  |-> triple.city,
     state                 |-> triple.state,
     postal_code           |-> triple.postal_code,
     sales_rep_employee_id |-> rep,
     credit_limit          |-> set_credit_limit(ci.spend_weights, customer_id, u)]

(* The rows one pass of the loop of CustomerInfo.generate_data can build     *)
(* after k others                                                            *)
CustomerDraws(customer_id, k, left) ==
    LET b0 == Allowed(k, left) IN
    UNION {LET b1 == b0 - Cost(tape, BaseTape) IN
    UNION {LET b2 == b1 - Cost(name, "a") IN
    UNION {LET b3 == b2 - Cost(phone, "a") IN
    UNION {LET b4 == b3 - Cost(address, "a") IN
    UNION {LET b5 == b4 - Cost(rep, 1) IN
           {[raised |-> set_city_state_zip(tape).raised,
             rec    |-> CustomerRecord(customer_id, name, phone, address,
                                       set_city_state_zip(tape).value, rep, u),
             left   |-> left - (b0 - (b5 - Cost(u, 1000)))] : u \in Draw(Uniforms, 1000, b5)}
        : rep \in Draw(SalesReps, 1, b4)}
        : address \in Draw(FakeTexts, "a", b3)}
        : phone \in Draw(FakeTexts, "a", b2)}
        : name \in Draw(FakeTexts, "a", b1)}
        : tape \in Draw(GeoTapes, BaseTape, b0)}

(* The loop over the set of customer ids, taken in any order; an exception   *)
(* of set_city_state_zip ends it.                                            *)
RECURSIVE CustomerLists(_, _, _)
CustomerLists(todo, sofar, left) ==
    IF todo = {} THEN {[raised |-> "", data |-> sofar, left |-> left]}
    ELSE UNION {UNION {IF d.raised # ""
                       THEN {[raised |-> d.raised, data |-> sofar, left |-> d.left]}
                       ELSE CustomerLists(todo \ {c}, Append(sofar, d.rec), d.left)
                       : d \in CustomerDraws(c, Len(sofar), left)}
                : c \in todo}

customer_generate_data(left) == CustomerLists(get_customer_ids(oh), <<>>, left)

-----------------------------------------------------------------------------
(* The order and customer pipeline: an OrderHistory, a CustomerInfo built    *)
(* on it, and the calls of the two objects.                                  *)

(* Revenues below, at and above the least number of orders whose customer   *)
(* pool is not empty                                                         *)
Revenues == {1, (MaxRevenue + 2) \div 2, MaxRevenue}

NoOH      == [revenue |-> 0, aov |-> 0, num_orders |-> 0, start_date |-> 0, end_date |-> 0,
              dates |-> <<>>, customer_pool |-> <<>>]
NoWeights == [c \in {} |-> <<1, 1>>]
NoTriple  == [city |-> "", state |-> "", postal_code |-> ""]
IdleGeo   == [status |-> "idle", tries |-> 0, attempts |-> <<>>, value |-> NoTriple]
NoSA      == [start_date |-> 0, end_date |-> 0, max_student_id |-> 0, dates |-> <<>>,
              status |-> "idle", d |-> 1, s |-> 1, data |-> <<>>, table |-> <<>>]
NoDf      == [records |-> <<>>, by |-> <<>>, ascending |-> TRUE, add_id |-> FALSE,
              done |-> FALSE, raised |-> "", rows |-> <<>>]
NoStudents == [today_year |-> 0, status |-> "idle", i |-> 1, data |-> <<>>, table |-> <<>>]
NoMut     == [order_date |-> 0, offset |-> 0, aov |-> 0, spike |-> 0, noise |-> 0,
              shipped |-> FALSE, shipped_date |-> 0,
              priced |-> FALSE, peak_day |-> 0, peak_multiplier5 |-> 0, order_amount |-> 0]

Init ==
    /\ \E revenue \in Revenues, aov \in 1..MaxAov, end_date \in Window :
          \E ids \in PoolIdDraws(PoolCounts(revenue \div aov)) :
             oh = NewOrderHistory(revenue, aov, FirstDay, end_date, ids)
    /\ ci = [built |-> FALSE, spend_weights |-> NoWeights]
    /\ pc = "idle"
    /\ geo = IdleGeo
    /\ order_table = <<>>
    /\ customer_table = <<>>
    /\ emitted = {}
    /\ weights_data = <<>>
    /\ error = ""
    /\ budget = MaxDepart
    /\ base_noise \in Noise
    /\ sa = NoSA
    /\ df = NoDf
    /\ students = NoStudents
    /\ mut = NoMut

(* CustomerInfo.__init__: self.spend_weights = order_history.get_spend_weights() *)
NewCustomerInfo ==
    /\ pc = "idle"
    /\ ~ci.built
    /\ \E g \in generate_data(budget) :
          /\ budget' = g.left
          /\ IF g.raised # ""
             THEN /\ pc' = "raised"
                  /\ error' = g.raised
                  /\ UNCHANGED <<ci, weights_data>>
             ELSE /\ weights_data' = g.data
                  /\ IF SpendWeightsError(g.data) # ""
                     THEN /\ pc' = "raised"
                          /\ error' = SpendWeightsError(g.data)
                          /\ UNCHANGED ci
                     ELSE /\ ci' = [built |-> TRUE, spend_weights |-> get_spend_weights(g.data)]
                          /\ UNCHANGED <<pc, error>>
    /\ UNCHANGED <<oh, geo, order_table, customer_table, emitted, base_noise, sa, df, students, mut>>

(* OrderHistory.__call__:                                                    *)
(* to_dataframe(generate_data(), by = ['order_id'], add_id = False, ...)     *)
CallOrderHistory ==
    /\ pc = "idle"
    /\ "order_history" \notin emitted
    /\ \E g \in generate_data(budget) :
          /\ budget' = g.left
          /\ IF g.raised # ""
             THEN /\ pc' = "raised"
                  /\ error' = g.raised
                  /\ UNCHANGED <<order_table, emitted>>
             ELSE \E r \in to_dataframe(g.data, <<"order_id">>, TRUE, FALSE) :
                     IF r.raised # ""
                     THEN /\ pc' = "raised"
                          /\ error' = r.raised
                          /\ UNCHANGED <<order_table, emitted>>
                     ELSE /\ order_table' = r.rows
                          /\ emitted' = emitted \cup {"order_history"}
                          /\ UNCHANGED <<pc, error>>
    /\ UNCHANGED <<oh, ci, geo, customer_table, weights_data, base_noise, sa, df, students, mut>>

(* CustomerInfo.__call__:                                                    *)
(* to_dataframe(generate_data(), by = ['customer_id'], add_id = False, ...)  *)
CallCustomerInfo ==
    /\ pc = "idle"
    /\ ci.built
    /\ "customer_info" \notin emitted
    /\ \E g \in customer_generate_data(budget) :
          /\ budget' = g.left
          /\ IF g.raised # ""
             THEN /\ pc' = "raised"
                  /\ error' = g.raised
                  /\ UNCHANGED <<customer_table, emitted>>
             ELSE \E r \in to_dataframe(g.data, <<"customer_id">>, TRUE, FALSE) :
                     IF r.raised # ""
                     THEN /\ pc' = "raised"
                          /\ error' = r.raised
                          /\ UNCHANGED <<customer_table, emitted>>
                     ELSE /\ customer_table' = r.rows
                          /\ emitted' = emitted \cup {"customer_info"}
                          /\ UNCHANGED <<pc, error>>
    /\ UNCHANGED <<oh, ci, geo, order_table, weights_data, base_noise, sa, df, students, mut>>

Next ==
    \/ NewCustomerInfo
    \/ CallOrderHistory
    \/ CallCustomerInfo

Spec == Init /\ [][Next]_vars

-----------------------------------------------------------------------------
(* CustomerInfo.set_city_state_zip called on its own, one pass of its loop   *)
(* at a time.  geo.attempts records what each pass sampled.                  *)

CallCityStateZip ==
    /\ pc = "idle"
    /\ ci.built
    /\ pc' = "geo"
    /\ geo' = [IdleGeo EXCEPT !.status = "running"]
    /\ UNCHANGED <<oh, ci, order_table, customer_table, emitted,
                   weights_data, error, budget, base_noise, sa, df, students, mut>>

(* One pass of the loop: fake.state_abbr(), then rn.choice(by_state(state)) *)
GeoAttempt ==
    /\ pc = "geo"
    /\ geo.status = "running"
    /\ geo.tries < GeoTries
    /\ \E a \in AttemptInputs :
          LET r == Attempt(a.state, a.k) IN
          IF r.raised # ""
          THEN /\ geo' = [geo EXCEPT !.status = "raised", !.tries = @ + 1,
                                     !.attempts = Append(@, a)]
               /\ pc' = "raised"
               /\ error' = r.raised
          ELSE /\ geo' = [geo EXCEPT !.status = IF r.returns THEN "returned" ELSE "running",
                                     !.tries = @ + 1,
                                     !.attempts = Append(@, a),
                                     !.value = IF r.returns THEN r.value ELSE @]
               /\ UNCHANGED <<pc, error>>
    /\ UNCHANGED <<oh, ci, order_table, customer_table, emitted,
                   weights_data, budget, base_noise, sa, df, students, mut>>

(* The return after the loop: the defaults *)
GeoFallback ==
    /\ pc = "geo"
    /\ geo.status = "running"
    /\ geo.tries = GeoTries
    /\ geo' = [geo EXCEPT !.status = "returned", !.value = fallback]
    /\ UNCHANGED <<oh, ci, pc, order_table, customer_table, emitted,
                   weights_data, error, budget, base_noise, sa, df, students, mut>>

ReturnCityStateZip ==
    /\ pc = "geo"
    /\ geo.status = "returned"
    /\ pc' = "idle"
    /\ UNCHANGED <<oh, ci, geo, order_table, customer_table, emitted,
                   weights_data, error, budget, base_noise, sa, df, students, mut>>

(* An OrderHistory of the least number of orders with a customer, and no     *)
(* departure from the baseline while the CustomerInfo is built on it.        *)
InitGeo ==
    /\ \E ids \in PoolIdDraws(PoolCounts((MaxRevenue + 2) \div 2)) :
          oh = NewOrderHistory((MaxRevenue + 2) \div 2, 1, FirstDay, FirstDay, ids)
    /\ ci = [built |-> FALSE, spend_weights |-> NoWeights]
    /\ pc = "idle"
    /\ geo = IdleGeo
    /\ order_table = <<>>
    /\ customer_table = <<>>
    /\ emitted = {}
    /\ weights_data = <<>>
    /\ error = ""
    /\ budget = 0
    /\ base_noise \in Noise
    /\ sa = NoSA
    /\ df = NoDf
    /\ students = NoStudents
    /\ mut = NoMut

NextGeo ==
    \/ NewCustomerInfo
    \/ CallCityStateZip
    \/ GeoAttempt
    \/ GeoFallback
    \/ ReturnCityStateZip

SpecGeo == InitGeo /\ [][NextGeo]_vars

-----------------------------------------------------------------------------
(* SchoolAttendance *)

attendance_weights == <<TRUE, TRUE, TRUE, TRUE, FALSE>>

(* Variant: range(delta.days) instead of range(delta.days + 1).              *)
sa_calculate_dates_short(start_date, end_date) ==
    [d \in 1..(IF end_date >= start_date THEN end_date - start_date ELSE 0)
        |-> start_date + d - 1]

(* SchoolAttendance.calculate_dates *)
sa_calculate_dates(start_date, end_date) ==
    [d \in 1..(IF end_date >= start_date THEN end_date - start_date + 1 ELSE 0)
        |-> start_date + d - 1]

(* SchoolAttendance.__init__ *)
NewSchoolAttendance(start_date, end_date, max_student_id) ==
    [start_date     |-> start_date,
     end_date       |-> end_date,
     max_student_id |-> max_student_id,
     dates          |-> sa_calculate_dates(start_date, end_date),
     status         |-> "idle",
     d              |-> 1,
     s              |-> 1,
     data           |-> <<>>,
     table          |-> <<>>]

set_student_ids(max_student_id) == [s \in 1..max_student_id |-> s]

AttDays == FirstDay..(FirstDay + MaxAttSpan)

InitAttendance ==
    /\ \E start_date \in AttDays, end_date \in AttDays, max_student_id \in 1..MaxStudents :
          sa = NewSchoolAttendance(start_date, end_date, max_student_id)
    /\ oh = NoOH
    /\ ci = [built |-> FALSE, spend_weights |-> NoWeights]
    /\ pc = "idle"
    /\ geo = IdleGeo
    /\ order_table = <<>>
    /\ customer_table = <<>>
    /\ emitted = {}
    /\ weights_data = <<>>
    /\ error = ""
    /\ budget = 0
    /\ base_noise = 1500
    /\ df = NoDf
    /\ students = NoStudents
    /\ mut = NoMut

(* SchoolAttendance.__call__ enters generate_data *)
CallSchoolAttendance ==
    /\ pc = "idle"
    /\ sa.status = "idle"
    /\ pc' = "attendance"
    /\ sa' = [sa EXCEPT !.status = "generating", !.d = 1, !.s = 1, !.data = <<>>]
    /\ UNCHANGED <<oh, ci, geo, order_table, customer_table, emitted,
                   weights_data, error, budget, base_noise, df, students, mut>>

(* One pass of the inner loop of generate_data; the outer loop moves to the  *)
(* next date after the last student id.                                      *)
AttendanceRecord ==
    /\ pc = "attendance"
    /\ sa.status = "generating"
    /\ sa.d <= Len(sa.dates)
    /\ sa.s <= Len(set_student_ids(sa.max_student_id))
    /\ \E attendance \in Range(attendance_weights) :
          sa' = [sa EXCEPT
                   !.data = Append(@, [date       |-> sa.dates[sa.d],
                                       student_id |-> set_student_ids(sa.max_student_id)[sa.s],
                                       attendance |-> attendance]),
                   !.s = IF sa.s = Len(set_student_ids(sa.max_student_id)) THEN 1 ELSE sa.s + 1,
                   !.d = IF sa.s = Len(set_student_ids(sa.max_student_id)) THEN sa.d + 1 ELSE sa.d]
    /\ UNCHANGED <<oh, ci, pc, geo, order_table, customer_table, emitted,
                   weights_data, error, budget, base_noise, df, students, mut>>

(* generate_data returns its list *)
AttendanceGenerated ==
    /\ pc = "attendance"
    /\ sa.status = "generating"
    /\ sa.d > Len(sa.dates)
    /\ sa' = [sa EXCEPT !.status = "generated"]
    /\ UNCHANGED <<oh, ci, pc, geo, order_table, customer_table, emitted,
                   weights_data, error, budget, base_noise, df, students, mut>>

(* to_dataframe(generate_data(), by = ['student_id', 'date'], ...) with the  *)
(* default add_id = True                                                     *)
FinishSchoolAttendance ==
    /\ pc = "attendance"
    /\ sa.status = "generated"
    /\ \E r \in to_dataframe(sa.data, <<"student_id", "date">>, TRUE, TRUE) :
          IF r.raised # ""
          THEN /\ pc' = "raised"
               /\ error' = r.raised
               /\ sa' = [sa EXCEPT !.status = "raised"]
               /\ UNCHANGED emitted
          ELSE /\ pc' = "idle"
               /\ sa' = [sa EXCEPT !.status = "done", !.table = r.rows]
               /\ emitted' = emitted \cup {"school_attendance"}
               /\ UNCHANGED error
    /\ UNCHANGED <<oh, ci, geo, order_table, customer_table,
                   weights_data, budget, base_noise, df, students, mut>>

NextAttendance ==
    \/ CallSchoolAttendance
    \/ AttendanceRecord
    \/ AttendanceGenerated
    \/ FinishSchoolAttendance

SpecAttendance == InitAttendance /\ [][NextAttendance]_vars

-----------------------------------------------------------------------------
(* Students, built on a SchoolAttendance object *)

(* f'SC{rn.randint(1, 6)}' for the number drawn *)
SchoolIds == <<"SC1", "SC2", "SC3", "SC4", "SC5", "SC6">>

(* Variant: SC2 is associated with District 2.                               *)
school_district_mapping_shifted(school_id) ==
    CASE school_id = "SC1" -> "District 1"
      [] school_id = "SC2" -> "District 2"
      [] school_id = "SC3" -> "District 2"
      [] school_id = "SC4" -> "District 2"
      [] school_id = "SC5" -> "District 3"
      [] school_id = "SC6" -> "District 3"

school_district_mapping(school_id) ==
    CASE school_id = "SC1" -> "District 1"
      [] school_id = "SC2" -> "District 1"
      [] school_id = "SC3" -> "District 2"
      [] school_id = "SC4" -> "District 2"
      [] school_id = "SC5" -> "District 3"
      [] school_id = "SC6" -> "District 3"

(* set_school_id_and_district for the number n drawn by rn.randint(1, 6) *)
set_school_id_and_district(n) ==
    [school_id |-> SchoolIds[n], school_district |-> school_district_mapping(SchoolIds[n])]

(* set_gpa in hundredths, for the rounded value x of normalvariate(3, 0.2):  *)
(* np.clip(x, 1, 4)                                                          *)
set_gpa(x) == IF x < 100 THEN 100 ELSE IF x > 400 THEN 400 ELSE x

(* Upper end of rn.randint(1, ...) for birth_day *)
LastBirthDay(birth_month) ==
    IF birth_month = 2 THEN 28 ELSE IF birth_month \in {4, 6, 9, 11} THEN 30 ELSE 31

set_date_of_birth(today_year, grade_level, birth_month, birth_day) ==
    [year |-> today_year - (grade_level + 5), month |-> birth_month, day |-> birth_day]

(* What one pass of the loop of generate_data draws: the grade level, the    *)
(* school number, the gpa before clipping, the month and day of birth.       *)
StudentDraws ==
    {d \in [grade_level : {1, 12}, school : 1..6, gpa : {50, 450},
            birth_month : {2, 3}, birth_day : {28, 31}] :
        /\ d.birth_day <= LastBirthDay(d.birth_month)
        /\ (d.grade_level = 1) = (d.gpa = 50)
        /\ (d.grade_level = 1) = (d.birth_month = 2)
        /\ (d.grade_level = 1) = (d.birth_day = 28)}

Years == {2023, 2024}     \* date.today().year

InitStudents ==
    /\ \E max_student_id \in 1..MaxStudents :
          sa = NewSchoolAttendance(FirstDay, FirstDay, max_student_id)
    /\ \E y \in Years : students = [NoStudents EXCEPT !.today_year = y]
    /\ oh = NoOH
    /\ ci = [built |-> FALSE, spend_weights |-> NoWeights]
    /\ pc = "idle"
    /\ geo = IdleGeo
    /\ order_table = <<>>
    /\ customer_table = <<>>
    /\ emitted = {}
    /\ weights_data = <<>>
    /\ error = ""
    /\ budget = 0
    /\ base_noise = 1500
    /\ df = NoDf
    /\ mut = NoMut

(* Students.__call__ enters generate_data *)
CallStudents ==
    /\ pc = "idle"
    /\ students.status = "idle"
    /\ pc' = "students"
    /\ students' = [students EXCEPT !.status = "generating", !.i = 1, !.data = <<>>]
    /\ UNCHANGED <<oh, ci, geo, order_table, customer_table, emitted,
                   weights_data, error, budget, base_noise, sa, df, mut>>

(* One pass of the loop of generate_data over school_attendance's ids *)
StudentRecord ==
    /\ pc = "students"
    /\ students.status = "generating"
    /\ students.i <= Len(set_student_ids(sa.max_student_id))
    /\ \E d \in StudentDraws :
          LET pair == set_school_id_and_district(d.school) IN
          students' = [students EXCEPT
                   !.data = Append(@, [student_id      |-> set_student_ids(sa.max_student_id)[students.i],
                                       school_id       |-> pair.school_id,
                                       grade_level     |-> d.grade_level,
                                       gpa             |-> set_gpa(d.gpa),
                                       date_of_birth   |-> set_date_of_birth(students.today_year,
                                                              d.grade_level, d.birth_month,
                                                              d.birth_day),
                                       school_district |-> pair.school_district]),
                   !.i = @ + 1]
    /\ UNCHANGED <<oh, ci, pc, geo, order_table, customer_table, emitted,
                   weights_data, error, budget, base_noise, sa, df, mut>>

(* generate_data returns its list *)
StudentsGenerated ==
    /\ pc = "students"
    /\ students.status = "generating"
    /\ students.i > Len(set_student_ids(sa.max_student_id))
    /\ students' = [students EXCEPT !.status = "generated"]
    /\ UNCHANGED <<oh, ci, pc, geo, order_table, customer_table, emitted,
                   weights_data, error, budget, base_noise, sa, df, mut>>

(* to_dataframe(generate_data(), by = ['student_id'], add_id = False, ...)   *)
FinishStudents ==
    /\ pc = "students"
    /\ students.status = "generated"
    /\ \E r \in to_dataframe(students.data, <<"student_id">>, TRUE, FALSE) :
          IF r.raised # ""
          THEN /\ pc' = "raised"
               /\ error' = r.raised
               /\ students' = [students EXCEPT !.status = "raised"]
               /\ UNCHANGED emitted
          ELSE /\ pc' = "idle"
               /\ students' = [students EXCEPT !.status = "done", !.table = r.rows]
               /\ emitted' = emitted \cup {"students"}
               /\ UNCHANGED error
    /\ UNCHANGED <<oh, ci, geo, order_table, customer_table,
                   weights_data, budget, base_noise, sa, df, mut>>

NextStudents ==
    \/ CallStudents
    \/ StudentRecord
    \/ StudentsGenerated
    \/ FinishStudents

SpecStudents == InitStudents /\ [][NextStudents]_vars

-----------------------------------------------------------------------------
(* OrderHistory.set_shipped_date and set_order_amount called on their own,   *)
(* on one order_date.  mut records the arguments, the draws and the results. *)

CallDays == FirstDay..(FirstDay + MaxCallSpan)

InitMutators ==
    /\ \E order_date \in CallDays, offset \in 1..2, aov \in 1..MaxAov,
          spike \in Spikes, noise \in Noise :
          mut = [NoMut EXCEPT !.order_date = order_date, !.offset = offset, !.aov = aov,
                              !.spike = spike, !.noise = noise]
    /\ oh = NoOH
    /\ ci = [built |-> FALSE, spend_weights |-> NoWeights]
    /\ pc = "idle"
    /\ geo = IdleGeo
    /\ order_table = <<>>
    /\ customer_table = <<>>
    /\ emitted = {}
    /\ weights_data = <<>>
    /\ error = ""
    /\ budget = 0
    /\ base_noise = 1500
    /\ sa = NoSA
    /\ df = NoDf
    /\ students = NoStudents

(* set_shipped_date(order_date) with rn.randint(1, 2) = mut.offset *)
CallSetShippedDate ==
    /\ pc = "idle"
    /\ ~mut.shipped
    /\ mut' = [mut EXCEPT !.shipped = TRUE,
                          !.shipped_date = set_shipped_date(mut.order_date, mut.offset)]
    /\ UNCHANGED <<oh, ci, pc, geo, order_table, customer_table, emitted,
                   weights_data, error, budget, base_noise, sa, df, students>>

(* set_order_amount(order_date): the loop over peak_days leaves the day it   *)
(* broke on (0 if none) and peak_multiplier; then the amount is drawn.       *)
CallSetOrderAmount ==
    /\ pc = "idle"
    /\ ~mut.priced
    /\ mut' = [mut EXCEPT
                  !.priced = TRUE,
                  !.peak_day = IF FirstPeak(mut.order_date) = 0 THEN 0
                               ELSE peak_days[FirstPeak(mut.order_date)],
                  !.peak_multiplier5 = peak_multiplier5(mut.order_date),
                  !.order_amount = set_order_amount(mut.aov, mut.order_date,
                                                    mut.spike, mut.noise)]
    /\ UNCHANGED <<oh, ci, pc, geo, order_table, customer_table, emitted,
                   weights_data, error, budget, base_noise, sa, df, students>>

NextMutators ==
    \/ CallSetShippedDate
    \/ CallSetOrderAmount

SpecMutators == InitMutators /\ [][NextMutators]_vars

-----------------------------------------------------------------------------
(* to_dataframe called on its own *)

FrameRecords == [k : 1..MaxKey, v : 1..2]

FrameLists == UNION {[1..n -> FrameRecords] : n \in 0..MaxLen}

InitFrame ==
    /\ \E records \in FrameLists, by \in {<<>>, <<"k">>}, ascending \in BOOLEAN, add_id \in BOOLEAN :
          df = [records |-> records, by |-> by, ascending |-> ascending, add_id |-> add_id,
                done |-> FALSE, raised |-> "", rows |-> <<>>]
    /\ oh = NoOH
    /\ ci = [built |-> FALSE, spend_weights |-> NoWeights]
    /\ pc = "idle"
    /\ geo = IdleGeo
    /\ order_table = <<>>
    /\ customer_table = <<>>
    /\ emitted = {}
    /\ weights_data = <<>>
    /\ error = ""
    /\ budget = 0
    /\ base_noise = 1500
    /\ sa = NoSA
    /\ students = NoStudents
    /\ mut = NoMut

CallToDataframe ==
    /\ pc = "idle"
    /\ ~df.done
    /\ \E r \in to_dataframe(df.records, df.by, df.ascending, df.add_id) :
          df' = [df EXCEPT !.done = TRUE, !.raised = r.raised, !.rows = r.rows]
    /\ UNCHANGED <<oh, ci, pc, geo, order_table, customer_table, emitted,
                   weights_data, error, budget, base_noise, sa, students, mut>>

NextFrame == CallToDataframe

SpecFrame == InitFrame /\ [][NextFrame]_vars

-----------------------------------------------------------------------------
(* Properties *)

AllOrders == Range(order_table) \cup Range(weights_data)

OrderCustomerIds == {order_table[i].customer_id : i \in 1..Len(order_table)}
TableCustomerIds == {customer_table[i].customer_id : i \in 1..Len(customer_table)}
BothEmitted == {"order_history", "customer_info"} \subseteq emitted

Count(s, x) == Cardinality({i \in 1..Len(s) : s[i] = x})
SameBag(s, t) ==
    /\ Len(s) = Len(t)
    /\ \A x \in Range(s) \cup Range(t) : Count(s, x) = Count(t, x)

(* Fractions <<n, d>> *)
SameFraction(a, b) == a[2] # 0 /\ b[2] # 0 /\ a[1] * b[2] = b[1] * a[2]
InOneToThree(w) ==
    /\ w[2] # 0
    /\ IF w[2] > 0 THEN w[2] <= w[1] /\ w[1] <= 3 * w[2]
                   ELSE w[2] >= w[1] /\ w[1] >= 3 * w[2]

(* C1: every order has shipped_date >= order_date + 1 day, and shipped_date  *)
(* is never a Saturday, a Sunday or a US federal holiday.                    *)
C1_ShippedOnBusinessDay ==
    \A r \in AllOrders :
        /\ r.shipped_date >= r.order_date + 1
        /\ weekday(r.shipped_date) < 5
        /\ r.shipped_date \notin holidays_2022

EmittedWeight(c) ==
    LET totals    == OrderTotals(order_table)
        max_total == SetMax({totals[x] : x \in DOMAIN totals})
    IN  <<max_total + 2 * (IF c \in DOMAIN totals THEN totals[c] ELSE 0), max_total>>

(* C3: the records get_spend_weights derived the weights from are the        *)
(* records __call__ emits: the weight applied to each customer is            *)
(* 1 + 2 * (its total in the emitted table / the largest total there).       *)
C3_WeightsFromEmittedOrders ==
    (ci.built /\ "order_history" \in emitted) =>
        /\ SameBag(weights_data, order_table)
        /\ \A c \in get_customer_ids(oh) :
              SameFraction(WeightOf(ci.spend_weights, c), EmittedWeight(c))

(* C4: no two records of one order table carry the same order_id.            *)
C4_OrderIdsUnique ==
    \A t \in {order_table, weights_data} :
        \A i, j \in 1..Len(t) : i # j => t[i].order_id # t[j].order_id

(* C5: for start_date <= end_date, generate_data of SchoolAttendance returns *)
(* (end_date - start_date + 1) * max_student_id records, and every pair of a *)
(* date of the range and a student id of 1..max_student_id is in exactly one *)
(* of them.                                                                  *)
C5_FullCoverage ==
    (sa.status \in {"generated", "done"} /\ sa.start_date <= sa.end_date) =>
        /\ Len(sa.data) = (sa.end_date - sa.start_date + 1) * sa.max_student_id
        /\ \A date \in sa.start_date..sa.end_date, s \in 1..sa.max_student_id :
              Cardinality({i \in 1..Len(sa.data) :
                              sa.data[i].date = date /\ sa.data[i].student_id = s}) = 1

C5_Witness ==
    /\ sa.status = "generated"
    /\ sa.start_date < sa.end_date
    /\ sa.max_student_id >= 2

(* C6: every spend weight applied, the default 1 included, lies in [1, 3],   *)
(* and every credit_limit of the customer table lies in [1000, 15000].       *)
C6_CreditLimitInRange ==
    /\ ci.built => \A c \in get_customer_ids(oh) : InOneToThree(WeightOf(ci.spend_weights, c))
    /\ \A i \in 1..Len(customer_table) :
          /\ 1000 <= customer_table[i].credit_limit
          /\ customer_table[i].credit_limit <= 15000

(* What the claim C7 calls a failed attempt: the sampled state is excluded,  *)
(* or no location is found for it.                                           *)
AttemptFails(a) ==
    \/ a.state \in excluded_states
    \/ by_state(a.state) = <<>>
    \/ by_state(a.state)[a.k].zipcode = ""

LocationOf(a) ==
    [city        |-> by_state(a.state)[a.k].major_city,
     state       |-> a.state,
     postal_code |-> by_state(a.state)[a.k].zipcode]

(* C7: set_city_state_zip makes at most 5 attempts; it returns the location  *)
(* of the first attempt that does not fail, and the triple (Los Angeles, CA, *)
(* 90210) exactly when all 5 attempts fail; the state it returns is never    *)
(* an excluded one.                                                          *)
C7_RetryThenFallback ==
    /\ geo.tries <= GeoTries
    /\ Len(geo.attempts) = geo.tries
    /\ geo.status = "returned" =>
          /\ \A i \in 1..(geo.tries - 1) : AttemptFails(geo.attempts[i])
          /\ IF geo.tries > 0 /\ ~AttemptFails(geo.attempts[geo.tries])
             THEN geo.value = LocationOf(geo.attempts[geo.tries])
             ELSE geo.tries = GeoTries /\ geo.value = fallback
          /\ geo.value = fallback <=>
                (geo.tries = GeoTries /\ \A i \in 1..GeoTries : AttemptFails(geo.attempts[i]))
          /\ geo.value.state \notin excluded_states

C7_Witness ==
    /\ geo.status = "returned"
    /\ geo.tries = GeoTries
    /\ geo.value = fallback
    /\ \E i \in 1..GeoTries : geo.attempts[i].state \in excluded_states

(* C8: no lookup failure inside set_city_state_zip reaches the caller: the   *)
(* call raises nothing, can always go on while it runs, and what it returns  *)
(* is a (city, state, postal_code) triple.                                   *)
C8_LookupFailureNotSurfaced ==
    /\ geo.status # "raised"
    /\ pc = "geo" => error = ""
    /\ geo.status = "running" => ENABLED (GeoAttempt \/ GeoFallback)
    /\ geo.status = "returned" =>
          /\ geo.value.city # ""
          /\ geo.value.state # ""
          /\ geo.value.postal_code # ""

C8_Witness ==
    /\ geo.status = "returned"
    /\ \E i \in 1..geo.tries :
          /\ geo.attempts[i].state \notin excluded_states
          /\ by_state(geo.attempts[i].state) = <<>>
    /\ \E i \in 1..geo.tries :
          /\ geo.attempts[i].state \notin excluded_states
          /\ by_state(geo.attempts[i].state) # <<>>
          /\ by_state(geo.attempts[i].state)[geo.attempts[i].k].zipcode = ""

WithoutId(r) == [k |-> r.k, v |-> r.v]

SortedWithIds ==
    /\ df.raised = ""
    /\ Len(df.rows) = Len(df.records)
    /\ SameBag([i \in 1..Len(df.rows) |-> WithoutId(df.rows[i])], df.records)
    /\ \A i \in 1..(Len(df.rows) - 1) : df.rows[i].k <= df.rows[i + 1].k
    /\ \A i \in 1..Len(df.rows) : df.rows[i].id = i

SortCase == df.done /\ df.by = <<"k">> /\ df.ascending /\ df.add_id

(* C9: for any list of records, to_dataframe with a sort key, ascending      *)
(* order and add_id = True returns the same records ordered by               *)
(* non-decreasing key, the i-th returned row having id i.                    *)
C9_SortedWithIds == SortCase => SortedWithIds

(* C9 as amended: the same, for any list of at least one record; for no      *)
(* record the frame has no column to sort by and the call raises KeyError.   *)
C9_SortedWithIdsNonEmpty == (SortCase /\ df.records # <<>>) => SortedWithIds

C9_Witness ==
    /\ SortCase
    /\ Len(df.records) = MaxLen
    /\ df.records[1].k > df.records[2].k
    /\ df.records[2].k = df.records[3].k
    /\ df.raised = ""

(* C10: num_orders = floor(revenue / aov), and generate_data returns a list  *)
(* of exactly num_orders records.                                            *)
C10_ExactlyNumOrders ==
    /\ oh.aov > 0 => oh.num_orders = oh.revenue \div oh.aov
    /\ error # "IndexError"
    /\ "order_history" \in emitted => Len(order_table) = oh.num_orders
    /\ ci.built => Len(weights_data) = oh.num_orders

(* C11: in every student list produced by Students.generate_data, and in    *)
(* the table made from it, school_id is one of SC1..SC6 with SC1, SC2 in     *)
(* District 1, SC3, SC4 in District 2 and SC5, SC6 in District 3, so two     *)
(* profiles with the same school_id have the same school_district.          *)
StudentProfiles == Range(students.data) \cup Range(students.table)

DistrictOf ==
    [x \in {"SC1", "SC2", "SC3", "SC4", "SC5", "SC6"} |->
        IF x \in {"SC1", "SC2"} THEN "District 1"
        ELSE IF x \in {"SC3", "SC4"} THEN "District 2" ELSE "District 3"]

C11_DistrictFunctionOfSchool ==
    /\ \A p \in StudentProfiles :
          /\ p.school_id \in DOMAIN DistrictOf
          /\ p.school_district = DistrictOf[p.school_id]
    /\ \A p, q \in StudentProfiles :
          p.school_id = q.school_id => p.school_district = q.school_district

C11_Witness ==
    /\ students.status = "done"
    /\ \E i, j \in 1..Len(students.table) :
          /\ i # j
          /\ students.table[i].school_id = "SC2"
          /\ students.table[j].school_id = "SC2"
          /\ students.table[i].grade_level # students.table[j].grade_level

(* C12: the table returned by SchoolAttendance.__call__ is ordered by date    *)
(* ascending and, within one date, by student_id ascending: consecutive     *)
(* rows r, r2 have r.date < r2.date, or the same date and                    *)
(* r.student_id < r2.student_id.                                             *)
C12_OrderedByDateThenStudent ==
    sa.status = "done" =>
        \A i \in 1..(Len(sa.table) - 1) :
            \/ sa.table[i].date < sa.table[i + 1].date
            \/ /\ sa.table[i].date = sa.table[i + 1].date
               /\ sa.table[i].student_id < sa.table[i + 1].student_id

(* C13: the three weekend/holiday checks of set_shipped_date are sequential: *)
(* each tests the date as advanced by the checks before it and adds one day  *)
(* only if that date is a weekend day or a 2022 US holiday, so the           *)
(* correction is 0, 1, 2 or 3 days and stops at the first business day.      *)
NonBusinessDay(d) == weekday(d) >= 5 \/ d \in holidays_2022
CheckOnce(d) == IF NonBusinessDay(d) THEN d + 1 ELSE d

C13_SequentialChecks ==
    mut.shipped =>
        mut.shipped_date = CheckOnce(CheckOnce(CheckOnce(mut.order_date + mut.offset)))

(* C14: the peak multiplier of set_order_amount is a ramp that peaks on the  *)
(* peak date: it is 3 when order_date is a peak day, it does not fall from   *)
(* one day to the next in the 10 days leading up to a peak day, and it is 1  *)
(* when no peak day lies within the 10 days from order_date on.              *)
LeadsUpTo(order_date) ==
    {p \in Range(peak_days) : 0 <= p - order_date /\ p - order_date <= 10}

C14_RampPeaksOnPeakDay ==
    mut.priced =>
        /\ mut.order_date \in Range(peak_days) => mut.peak_multiplier5 = 15
        /\ (\E p \in LeadsUpTo(mut.order_date) : p > mut.order_date)
               => mut.peak_multiplier5 <= peak_multiplier5(mut.order_date + 1)
        /\ LeadsUpTo(mut.order_date) = {} => mut.peak_multiplier5 = 5

(* C15: when order_date lies in the window of more than one peak day, the    *)
(* peak day whose multiplier set_order_amount applies is the nearest of the  *)
(* matching peak days: the one with the smallest |peak_day - order_date|.    *)
Matching(order_date) ==
    {p \in Range(peak_days) : -10 <= p - order_date /\ p - order_date <= 0}

C15_NearestPeakApplied ==
    (mut.priced /\ Cardinality(Matching(mut.order_date)) > 1) =>
        /\ mut.peak_day \in Matching(mut.order_date)
        /\ \A p \in Matching(mut.order_date) :
              Abs(mut.peak_day - mut.order_date) <= Abs(p - mut.order_date)

(* C16: for an OrderHistory with start_date <= end_date, every order_date    *)
(* produced by generate_data lies in [start_date, end_date], whether or not  *)
(* the nine fixed peak dates fall inside that range.                         *)
C16_OrderDateInRange ==
    oh.start_date <= oh.end_date =>
        \A o \in AllOrders : oh.start_date <= o.order_date /\ o.order_date <= oh.end_date

(* C16 as amended: every order_date produced by generate_data lies in        *)
(* [start_date, end_date] or is one of the nine fixed peak dates.            *)
C16_OrderDateInRangeOrPeak ==
    oh.start_date <= oh.end_date =>
        \A o \in AllOrders :
            \/ oh.start_date <= o.order_date /\ o.order_date <= oh.end_date
            \/ o.order_date \in Range(peak_days)

C16_Witness ==
    /\ "order_history" \in emitted
    /\ oh.start_date <= oh.end_date
    /\ \E i, j \in 1..Len(order_table) :
          /\ order_table[i].order_date \in Range(peak_days)
          /\ order_table[i].order_date > oh.end_date
          /\ oh.start_date <= order_table[j].order_date
          /\ order_table[j].order_date <= oh.end_date

====
